---- MODULE Spec2Model ----
(***************************************************************************)
(* Model of generate_dashboard.py: a script that loads a JSON test report, *)
(* substitutes its fields into an HTML template (an f-string), writes the  *)
(* page to a fixed output file and opens it with webbrowser.open.  The     *)
(* page embeds a script that the viewer evaluates to build four charts.    *)
(*                                                                         *)
(* Text is modelled as a sequence of characters (one-character strings);   *)
(* a literal stretch of the template is one element naming the stretch.    *)
(* A JSON value is tagged: IntV(n) or StrV(chars); a JSON object is a      *)
(* function from key names to values, a missing key is a key outside its   *)
(* DOMAIN.                                                                 *)
(***************************************************************************)
EXTENDS Integers, Sequences, FiniteSets, TLC

(***************************************************************************)
(* Bounds of the model.                                                    *)
(***************************************************************************)
MaxRuns == 3
MaxSuites == 2
MaxTests == 2
BufferSize == 32

(***************************************************************************)
(* Generic helpers.                                                        *)
(***************************************************************************)
IntV(n) == [t |-> "int", v |-> n]
StrV(s) == [t |-> "str", v |-> s]

RECURSIVE Concat(_)
Concat(ss) == IF ss = <<>> THEN <<>> ELSE Head(ss) \o Concat(Tail(ss))

Range(s) == {s[i] : i \in DOMAIN s}

IsPrefix(s, t) == Len(s) <= Len(t) /\ SubSeq(t, 1, Len(s)) = s

Contains(text, s) ==
  \E i \in 1..(Len(text) - Len(s) + 1) : SubSeq(text, i, i + Len(s) - 1) = s

Digit(d) == <<"0", "1", "2", "3", "4", "5", "6", "7", "8", "9">>[d + 1]

\* str(n) of a non-negative int: its decimal digits.
RECURSIVE IntToStr(_)
IntToStr(n) == IF n < 10 THEN <<Digit(n)>> ELSE IntToStr(n \div 10) \o <<Digit(n % 10)>>

\* str(value) as the f-string applies it to a substituted field.
PyStr(x) == IF x.t = "int" THEN IntToStr(x.v) ELSE x.v

\* data[k1][k2]...: every key of the path is present.
RECURSIVE HasPath(_, _)
HasPath(d, path) ==
  IF path = <<>> THEN TRUE
  ELSE Head(path) \in DOMAIN d /\ HasPath(d[Head(path)], Tail(path))

RECURSIVE Lookup(_, _)
Lookup(d, path) == IF path = <<>> THEN d ELSE Lookup(d[Head(path)], Tail(path))

\* The document d without the key at the end of path.
RECURSIVE RemovePath(_, _)
RemovePath(d, path) ==
  IF Len(path) = 1
  THEN [k \in DOMAIN d \ {path[1]} |-> d[k]]
  ELSE [d EXCEPT ![path[1]] = RemovePath(@, Tail(path))]

(***************************************************************************)
(* json.dumps with its defaults (ensure_ascii=True, separators ", " and    *)
(* ": ").  The characters of the model: "a" an ordinary letter, " " a      *)
(* space, the double quote, the backslash, "U+00E9" a non-ASCII letter.    *)
(***************************************************************************)
\* Mutant of JsonEscapeChar: the space is escaped as well.
JsonEscapeCharAndSpace(c) ==
  CASE c = "\"" -> <<"\\", "\"">>
    [] c = "\\" -> <<"\\", "\\">>
    [] c = "U+00E9" -> <<"\\", "u", "0", "0", "e", "9">>
    [] c = " " -> <<"\\", "u", "0", "0", "2", "0">>
    [] OTHER -> <<c>>

\* A character inside a JSON string: the double quote and the backslash get a
\* backslash, a non-ASCII character becomes \uXXXX.
JsonEscapeChar(c) ==
  CASE c = "\"" -> <<"\\", "\"">>
    [] c = "\\" -> <<"\\", "\\">>
    [] c = "U+00E9" -> <<"\\", "u", "0", "0", "e", "9">>
    [] OTHER -> <<c>>

RECURSIVE JsonEscape(_)
JsonEscape(s) == IF s = <<>> THEN <<>> ELSE JsonEscapeChar(Head(s)) \o JsonEscape(Tail(s))

JsonValue(x) == IF x.t = "int" THEN IntToStr(x.v) ELSE <<"\"">> \o JsonEscape(x.v) \o <<"\"">>

\* The keys of a suite object in the order the report lists them.
SuiteKeyOrder == <<"name", "category", "tests", "passed", "failed">>

RECURSIVE JsonItems(_, _)
JsonItems(obj, keys) ==
  IF keys = <<>> THEN <<>>
  ELSE IF Head(keys) \notin DOMAIN obj THEN JsonItems(obj, Tail(keys))
  ELSE LET rest == JsonItems(obj, Tail(keys))
           item == <<"\"", Head(keys), "\"", ":", " ">> \o JsonValue(obj[Head(keys)])
       IN IF rest = <<>> THEN item ELSE item \o <<",", " ">> \o rest

JsonObject(obj) == <<"{">> \o JsonItems(obj, SuiteKeyOrder) \o <<"}">>

RECURSIVE JsonList(_)
JsonList(list) ==
  IF list = <<>> THEN <<>>
  ELSE IF Len(list) = 1 THEN JsonObject(list[1])
  ELSE JsonObject(list[1]) \o <<",", " ">> \o JsonList(Tail(list))

JsonDumps(list) == <<"[">> \o JsonList(list) \o <<"]">>

(***************************************************************************)
(* The template: the f-string of create_html_dashboard, as its literal     *)
(* stretches and its substitutions in source order.                        *)
(***************************************************************************)
Lit(name) == [kind |-> "lit", text |-> name]
Field(path) == [kind |-> "field", path |-> path]
Dumps(path) == [kind |-> "dumps", path |-> path]

Summary(k) == Field(<<"testExecutionSummary", k>>)
Finding(group, k) == Field(<<"testExecutionSummary", "majorFindings", group, k>>)

Template == <<
  Lit("<head+style+header>"), Summary("totalTests"),
  Lit(" Tests Executed | "), Summary("totalSuites"),
  Lit(" Test Suites ... <stat-card>"), Summary("totalTests"),
  Lit("<stat-card passed>"), Summary("totalPassed"),
  Lit("<stat-card failed>"), Summary("totalFailed"),
  Lit("<stat-card rate>"), Summary("successRate"),
  Lit("<stat-card suites>"), Summary("totalSuites"),
  Lit("<charts><security>"), Finding("securityIssues", "sqlInjectionVulnerabilities"),
  Lit(" Found<headers>"), Finding("securityIssues", "missingSecurityHeaders"),
  Lit("<session>"), Finding("securityIssues", "sessionTokenIssues"),
  Lit("<accessibility>"), Finding("accessibilityIssues", "colorContrastViolations"),
  Lit("<unlabeled>"), Finding("accessibilityIssues", "unlabeledFormInputs"),
  Lit("<aria>"), Finding("accessibilityIssues", "ariaCompliance"),
  Lit("<performance>"), Finding("performanceIssues", "concurrentUserFailures"),
  Lit("<cls>"), Finding("performanceIssues", "clsScore"),
  Lit("<badge> From "), Field(<<"comparisonWithPrevious", "previousTestCount">>),
  Lit(" basic tests to "), Field(<<"comparisonWithPrevious", "newTestCount">>),
  Lit(" comprehensive tests<footer><script>resultsChart data: ["), Summary("totalPassed"),
  Lit(", "), Summary("totalFailed"),
  Lit("] failureChart data: ["), Field(<<"failureAnalysis", "authenticationFailures">>),
  Lit(", "), Field(<<"failureAnalysis", "functionalFailures">>),
  Lit("] const testSuites = "), Dumps(<<"testSuiteResults">>),
  Lit("; performanceChart categoryChart</script></html>") >>

\* The keys the Python side of the template looks up.
PythonPaths == {Template[i].path : i \in {j \in 1..Len(Template) : Template[j].kind # "lit"}}

RenderPart(data, part) ==
  CASE part.kind = "lit" -> <<part.text>>
    [] part.kind = "field" -> PyStr(Lookup(data, part.path))
    [] part.kind = "dumps" -> JsonDumps(Lookup(data, part.path))

\* Evaluating the f-string: a KeyError at the first absent key, else the page.
Render(data) ==
  IF \E p \in PythonPaths : ~HasPath(data, p)
  THEN [ok |-> FALSE, html |-> <<>>]
  ELSE [ok |-> TRUE, html |-> Concat([i \in 1..Len(Template) |-> RenderPart(data, Template[i])])]

(***************************************************************************)
(* Report documents.                                                       *)
(***************************************************************************)
SuiteKeys == {"name", "category", "tests", "passed", "failed"}

Suite(name, category, tests, passed, failed) ==
  [name |-> StrV(name), category |-> StrV(category), tests |-> IntV(tests),
   passed |-> IntV(passed), failed |-> IntV(failed)]

\* The i-th suite of the sample report.
SampleSuite(i) == Suite(<<"a", " ", "a">>, <<"A">>, i, i - 1, 1)

SampleSuites(n) == [i \in 1..n |-> SampleSuite(i)]

Doc(suites) ==
  [testExecutionSummary |->
     [totalTests |-> IntV(243), totalSuites |-> IntV(12), totalPassed |-> IntV(200),
      totalFailed |-> IntV(43), successRate |-> StrV(<<"8", "2", ".", "3", "%">>),
      majorFindings |->
        [securityIssues |->
           [sqlInjectionVulnerabilities |-> IntV(3),
            missingSecurityHeaders |-> IntV(5),
            sessionTokenIssues |-> StrV(<<"a">>)],
         accessibilityIssues |->
           [colorContrastViolations |-> IntV(7),
            unlabeledFormInputs |-> IntV(4),
            ariaCompliance |-> StrV(<<"a", " ", "a">>)],
         performanceIssues |->
           [concurrentUserFailures |-> StrV(<<"6", "%">>),
            clsScore |-> StrV(<<"0", ".", "9">>)]]],
   failureAnalysis |-> [authenticationFailures |-> IntV(30), functionalFailures |-> IntV(13)],
   testSuiteResults |-> suites,
   comparisonWithPrevious |-> [previousTestCount |-> IntV(13), newTestCount |-> IntV(243)]]

\* Every key path that leads to a key the Python side looks up.
KeyPaths == UNION {{SubSeq(p, 1, n) : n \in 1..Len(p)} : p \in PythonPaths}

RemoveKey(obj, k) == [j \in DOMAIN obj \ {k} |-> obj[j]]

\* A suite entry of the document lacks one of the keys the page's script reads.
SuiteLacksKey(doc) ==
  /\ HasPath(doc, <<"testSuiteResults">>)
  /\ \E i \in 1..Len(doc.testSuiteResults) :
       \E k \in SuiteKeys : k \notin DOMAIN doc.testSuiteResults[i]

\* The document lacks a key that the template (markup or script) references.
LacksReferencedKey(doc) ==
  \/ \E p \in PythonPaths : ~HasPath(doc, p)
  \/ SuiteLacksKey(doc)

\* The reports of the program runs: complete ones, ones with one key taken away.
CompleteDocs == {Doc(SampleSuites(n)) : n \in 0..MaxSuites}

DocsLackingKey ==
  {RemovePath(Doc(SampleSuites(1)), p) : p \in KeyPaths}
    \cup {Doc(<<RemoveKey(SampleSuite(1), k)>>) : k \in SuiteKeys}

NoDoc == [none |-> TRUE]

InputFiles ==
  {[kind |-> "absent", doc |-> NoDoc], [kind |-> "malformed", doc |-> NoDoc]}
    \cup {[kind |-> "json", doc |-> d] : d \in CompleteDocs \cup DocsLackingKey}

OldContent == <<"<previous dashboard>">>

OutputFiles == {[exists |-> FALSE, content |-> <<>>], [exists |-> TRUE, content |-> OldContent]}

(***************************************************************************)
(* The program run: main() and create_html_dashboard().                    *)
(***************************************************************************)
VARIABLES
  inputFile,     \* comprehensive-final-report.json
  outputFile,    \* jira-test-dashboard.html
  pc,            \* the statement the process is at
  data,          \* the loaded report
  html_content,  \* the rendered page
  handleOpen,    \* the output file object is open
  printed,       \* what this run has printed (stdout, and the traceback)
  browser,       \* the URLs this run has handed to webbrowser.open
  viewerResult,  \* how webbrowser.open ended in this run
  exitStatus,    \* the exit status of the process, -1 while it runs
  error,         \* the exception that ended the run
  runs,          \* the number of runs started
  steps,         \* the steps this run has started, in order
  prevOut,       \* the output file as it was when this run started
  firstOut,      \* the output file as the first successful run left it
  testSuites,    \* the page's script: const testSuites
  suiteIdx,      \* the page's script: the suite testSuites.forEach is at
  categories,    \* the page's script: const categories
  categoryData,  \* the page's script: const categoryData
  charts,        \* the labels and data handed to new Chart(...)
  vpc            \* the statement the page's script is at

runVars == <<inputFile, outputFile, pc, data, html_content, handleOpen, printed, browser,
             viewerResult, exitStatus, error, runs, steps, prevOut, firstOut>>
viewerVars == <<testSuites, suiteIdx, categories, categoryData, charts, vpc>>
vars == <<runVars, viewerVars>>

\* A script object without properties: its own keys in insertion order, and
\* the value of each.
NoCategories == [keys |-> <<>>, val |-> <<>>]

NoCharts == [barLabels |-> <<>>, barPassed |-> <<>>, barFailed |-> <<>>,
             radarLabels |-> <<>>, radarData |-> <<>>]

ViewerIdle ==
  /\ testSuites = <<>>
  /\ suiteIdx = 1
  /\ categories = NoCategories
  /\ categoryData = <<>>
  /\ charts = NoCharts
  /\ vpc = "idle"

ProcessStart ==
  /\ pc = "start"
  /\ data = NoDoc
  /\ html_content = <<>>
  /\ handleOpen = FALSE
  /\ printed = <<>>
  /\ browser = <<>>
  /\ viewerResult = "none"
  /\ exitStatus = -1
  /\ error = "none"
  /\ steps = <<>>

Init ==
  /\ inputFile \in InputFiles
  /\ outputFile \in OutputFiles
  /\ ProcessStart
  /\ runs = 1
  /\ prevOut = outputFile
  /\ firstOut = [set |-> FALSE, content |-> <<>>]
  /\ ViewerIdle

\* Mutant of Raise: the error is reported but the process exits with 0.
RaiseExitZero(err) ==
  /\ pc' = "exit"
  /\ error' = err
  /\ exitStatus' = 0
  /\ printed' = Append(printed, "Traceback: " \o err)

\* The steps of a run.
StepOrder == <<"load", "render", "write", "open">>

\* An uncaught exception: the traceback is printed and the process exits with 1.
Raise(err) ==
  /\ pc' = "exit"
  /\ error' = err
  /\ exitStatus' = 1
  /\ printed' = Append(printed, "Traceback: " \o err)

\* main: print("Creating ..."), then the call of create_html_dashboard.
Start ==
  /\ pc = "start"
  /\ pc' = "load"
  /\ printed' = Append(printed, "Creating dashboard...")
  /\ UNCHANGED <<inputFile, outputFile, data, html_content, handleOpen, browser, viewerResult,
                 exitStatus, error, runs, steps, prevOut, firstOut, viewerVars>>

\* Mutant of Load: unparseable content is taken as an empty report.
LoadLenient ==
  /\ pc = "load"
  /\ steps' = Append(steps, "load")
  /\ \/ /\ inputFile.kind = "absent"
        /\ Raise("FileNotFoundError")
        /\ UNCHANGED data
     \/ /\ inputFile.kind # "absent"
        /\ data' = IF inputFile.kind = "json" THEN inputFile.doc ELSE <<>>
        /\ pc' = "render"
        /\ UNCHANGED <<printed, exitStatus, error>>
  /\ UNCHANGED <<inputFile, outputFile, html_content, handleOpen, browser, viewerResult,
                 runs, prevOut, firstOut, viewerVars>>

\* with open(input, 'r') as f: data = json.load(f)
Load ==
  /\ pc = "load"
  /\ steps' = Append(steps, "load")
  /\ \/ /\ inputFile.kind = "absent"
        /\ Raise("FileNotFoundError")
        /\ UNCHANGED data
     \/ /\ inputFile.kind = "malformed"
        /\ Raise("JSONDecodeError")
        /\ UNCHANGED data
     \/ /\ inputFile.kind = "json"
        /\ data' = inputFile.doc
        /\ pc' = "render"
        /\ UNCHANGED <<printed, exitStatus, error>>
  /\ UNCHANGED <<inputFile, outputFile, html_content, handleOpen, browser, viewerResult,
                 runs, prevOut, firstOut, viewerVars>>

\* Mutant of RenderPage: the page carries a stamp that differs from run to run.
RenderPageStamped ==
  /\ pc = "render"
  /\ steps' = Append(steps, "render")
  /\ LET r == Render(data) IN
       \/ /\ r.ok
          /\ html_content' = r.html \o IntToStr(runs)
          /\ pc' = "write"
          /\ UNCHANGED <<printed, exitStatus, error>>
       \/ /\ ~r.ok
          /\ Raise("KeyError")
          /\ UNCHANGED html_content
  /\ UNCHANGED <<inputFile, outputFile, data, handleOpen, browser, viewerResult,
                 runs, prevOut, firstOut, viewerVars>>

\* html_content = f"""..."""
RenderPage ==
  /\ pc = "render"
  /\ steps' = Append(steps, "render")
  /\ LET r == Render(data) IN
       \/ /\ r.ok
          /\ html_content' = r.html
          /\ pc' = "write"
          /\ UNCHANGED <<printed, exitStatus, error>>
       \/ /\ ~r.ok
          /\ Raise("KeyError")
          /\ UNCHANGED html_content
  /\ UNCHANGED <<inputFile, outputFile, data, handleOpen, browser, viewerResult,
                 runs, prevOut, firstOut, viewerVars>>

\* Mutant of OpenOutput: the file is opened for appending ('a').
OpenOutputAppend ==
  /\ pc = "write"
  /\ ~handleOpen
  /\ steps' = Append(steps, "write")
  /\ \/ /\ outputFile' = [exists |-> TRUE, content |-> outputFile.content]
        /\ handleOpen' = TRUE
        /\ UNCHANGED <<pc, printed, exitStatus, error>>
     \/ /\ Raise("OSError")
        /\ UNCHANGED <<outputFile, handleOpen>>
  /\ UNCHANGED <<inputFile, data, html_content, browser, viewerResult,
                 runs, prevOut, firstOut, viewerVars>>

\* open(output, 'w'): the file is created or truncated, or the open fails.
OpenOutput ==
  /\ pc = "write"
  /\ ~handleOpen
  /\ steps' = Append(steps, "write")
  /\ \/ /\ outputFile' = [exists |-> TRUE, content |-> <<>>]
        /\ handleOpen' = TRUE
        /\ UNCHANGED <<pc, printed, exitStatus, error>>
     \/ /\ Raise("OSError")
        /\ UNCHANGED <<outputFile, handleOpen>>
  /\ UNCHANGED <<inputFile, data, html_content, browser, viewerResult,
                 runs, prevOut, firstOut, viewerVars>>

\* The lengths a partly written page can have: the file object hands the text
\* to the file in whole buffers.
PartialLengths(text) == {n \in 0..(Len(text) - 1) : n % BufferSize = 0}

\* Mutant of WriteFile: the page stays in the buffer of a file object that is
\* never closed, and the function returns.
WriteFileNoClose ==
  /\ pc = "write"
  /\ handleOpen
  /\ pc' = "created"
  /\ UNCHANGED <<inputFile, outputFile, data, html_content, handleOpen, printed, browser,
                 viewerResult, exitStatus, error, runs, steps, prevOut, firstOut, viewerVars>>

\* f.write(html_content) and the close at the end of the with block: all of
\* the page reaches the file, or the write fails after part of it did.
WriteFile ==
  /\ pc = "write"
  /\ handleOpen
  /\ handleOpen' = FALSE
  /\ \/ /\ outputFile' = [outputFile EXCEPT !.content = @ \o html_content]
        /\ pc' = "created"
        /\ UNCHANGED <<printed, exitStatus, error>>
     \/ /\ \E n \in PartialLengths(html_content) :
             outputFile' = [outputFile EXCEPT !.content = @ \o SubSeq(html_content, 1, n)]
        /\ Raise("OSError")
  /\ UNCHANGED <<inputFile, data, html_content, browser, viewerResult,
                 runs, steps, prevOut, firstOut, viewerVars>>

\* print("... dashboard created!"); return 'jira-test-dashboard.html'
Created ==
  /\ pc = "created"
  /\ pc' = "launch"
  /\ printed' = Append(printed, "dashboard created!")
  /\ UNCHANGED <<inputFile, outputFile, data, html_content, handleOpen, browser, viewerResult,
                 exitStatus, error, runs, steps, prevOut, firstOut, viewerVars>>

\* The URL of the written file: 'file://' + os.path.abspath(dashboard_file)
DashboardUrl == <<"file://", "abspath(jira-test-dashboard.html)">>

\* print("Opening dashboard: ..."); webbrowser.open(url): the call returns
\* True, returns False (no viewer could be started), or raises.
Launch ==
  /\ pc = "launch"
  /\ steps' = Append(steps, "open")
  /\ browser' = Append(browser, DashboardUrl)
  /\ \E outcome \in {"true", "false", "raise"} :
       /\ viewerResult' = outcome
       /\ IF outcome = "raise"
          THEN /\ pc' = "exit"
               /\ error' = "webbrowser.Error"
               /\ exitStatus' = 1
               /\ printed' = printed \o <<"Opening dashboard", "Traceback: webbrowser.Error">>
          ELSE /\ pc' = "opened"
               /\ printed' = Append(printed, "Opening dashboard")
               /\ UNCHANGED <<exitStatus, error>>
  /\ UNCHANGED <<inputFile, outputFile, data, html_content, handleOpen,
                 runs, prevOut, firstOut, viewerVars>>

\* print("Dashboard opened in browser!") and the feature list; main returns.
Finish ==
  /\ pc = "opened"
  /\ pc' = "exit"
  /\ exitStatus' = 0
  /\ printed' = printed \o <<"Dashboard opened in browser!", "Features">>
  /\ firstOut' = IF firstOut.set THEN firstOut ELSE [set |-> TRUE, content |-> outputFile.content]
  /\ UNCHANGED <<inputFile, outputFile, data, html_content, handleOpen, browser, viewerResult,
                 error, runs, steps, prevOut, viewerVars>>

\* The run is interrupted (KeyboardInterrupt): an open output file is closed
\* with whatever part of the page had reached it.
Interrupt ==
  /\ pc # "exit"
  /\ Raise("KeyboardInterrupt")
  /\ handleOpen' = FALSE
  /\ IF handleOpen
     THEN \E n \in PartialLengths(html_content) :
            outputFile' = [outputFile EXCEPT !.content = @ \o SubSeq(html_content, 1, n)]
     ELSE UNCHANGED outputFile
  /\ UNCHANGED <<inputFile, data, html_content, browser, viewerResult,
                 runs, steps, prevOut, firstOut, viewerVars>>

\* The program is started again; the report file is the same.
Rerun ==
  /\ pc = "exit"
  /\ runs < MaxRuns
  /\ runs' = runs + 1
  /\ pc' = "start"
  /\ data' = NoDoc
  /\ html_content' = <<>>
  /\ handleOpen' = FALSE
  /\ printed' = <<>>
  /\ browser' = <<>>
  /\ viewerResult' = "none"
  /\ exitStatus' = -1
  /\ error' = "none"
  /\ steps' = <<>>
  /\ prevOut' = outputFile
  /\ UNCHANGED <<inputFile, outputFile, firstOut, viewerVars>>

Next ==
  \/ Start
  \/ Load
  \/ RenderPage
  \/ OpenOutput
  \/ WriteFile
  \/ Created
  \/ Launch
  \/ Finish
  \/ Interrupt
  \/ Rerun

Spec == Init /\ [][Next]_vars

(***************************************************************************)
(* Properties of the program run.                                          *)
(***************************************************************************)
SuccessMessages == {"dashboard created!", "Dashboard opened in browser!", "Features"}

FatalErrors == {"FileNotFoundError", "JSONDecodeError", "KeyError", "OSError"}

\* C1: a run whose report lacks a key the template references fails in the
\* render step with a KeyError (Missing Field), leaves the output file as
\* it was before the run and never launches the viewer.
C1_MissingFieldFails ==
  (inputFile.kind = "json" /\ LacksReferencedKey(inputFile.doc)) =>
    /\ outputFile = prevOut
    /\ browser = <<>>
    /\ "render" \in Range(steps) => (pc = "exit" /\ error = "KeyError" /\ exitStatus = 1)

\* C2: a run whose input is not parseable fails in the load step with a
\* JSONDecodeError (Malformed Input); the render, write and open steps never
\* start, nothing is rendered, written or handed to the viewer.
C2_MalformedFailsBeforeRender ==
  inputFile.kind = "malformed" =>
    /\ Range(steps) \subseteq {"load"}
    /\ html_content = <<>>
    /\ outputFile = prevOut
    /\ browser = <<>>
    /\ "load" \in Range(steps) => (pc = "exit" /\ error = "JSONDecodeError" /\ exitStatus = 1)

C2_Witness ==
  /\ inputFile.kind = "malformed"
  /\ steps = <<"load">>
  /\ pc = "exit"
  /\ error = "JSONDecodeError"

\* C3: the steps of a run start in the order load, render, write, open, each
\* at most once; the write starts only with the complete rendered page, and
\* the viewer gets the URL of the file only once the file holds the whole
\* page and is closed.
C3_StrictOrder ==
  /\ IsPrefix(steps, StepOrder)
  /\ "write" \in Range(steps) => (Render(data).ok /\ html_content = Render(data).html)
  /\ browser # <<>> =>
       /\ browser = <<DashboardUrl>>
       /\ ~handleOpen
       /\ outputFile.exists
       /\ outputFile.content = html_content

C3_Witness ==
  /\ steps = StepOrder
  /\ browser = <<DashboardUrl>>
  /\ pc = "opened"

HasDiagnostic == \E i \in DOMAIN printed : printed[i] \notin SuccessMessages \cup {"Creating dashboard...", "Opening dashboard"}

\* C4: when webbrowser.open fails (returns False or raises) the run still
\* ends with exit status 0, a diagnostic is printed and no success message
\* about the viewer, and the written output file is unchanged.
C4_ViewerFailureNonFatal ==
  (pc = "exit" /\ viewerResult \in {"false", "raise"} /\ error # "KeyboardInterrupt") =>
    /\ exitStatus = 0
    /\ HasDiagnostic
    /\ outputFile.content = html_content

\* C5: a Missing Field, Malformed Input or I/O failure ends the run at once:
\* the process exits with a non-zero status, no step was started twice, the
\* viewer was not launched and no success message was printed.
C5_FailuresAbort ==
  error \in FatalErrors =>
    /\ pc = "exit"
    /\ exitStatus > 0
    /\ IsPrefix(steps, StepOrder)
    /\ browser = <<>>
    /\ Range(printed) \cap SuccessMessages = {}

C5_Witness ==
  /\ error = "OSError"
  /\ steps = <<"load", "render", "write">>
  /\ outputFile.content # html_content
  /\ pc = "exit"

\* C6: every successful run on the unchanged report leaves the output file
\* with the content the first successful run left, whatever the file held
\* when the run started.
C6_Idempotent ==
  (pc = "exit" /\ exitStatus = 0 /\ firstOut.set) => outputFile.content = firstOut.content

C6_Witness ==
  /\ runs = 3
  /\ pc = "exit"
  /\ exitStatus = 0
  /\ firstOut.set
  /\ prevOut.content # firstOut.content

\* C8: after a successful run the output file exists and its content is
\* exactly the rendered page of the report, nothing of the earlier content
\* remaining; no step changes the input file.
C8_WriteReplaces ==
  /\ [](pc = "exit" /\ exitStatus = 0 =>
          /\ Render(inputFile.doc).ok
          /\ outputFile = [exists |-> TRUE, content |-> Render(inputFile.doc).html])
  /\ [][inputFile' = inputFile]_vars

C8_Witness ==
  /\ pc = "exit"
  /\ exitStatus = 0
  /\ prevOut = [exists |-> TRUE, content |-> OldContent]
  /\ outputFile.content # prevOut.content

\* C10: when a run has ended, the output file either is as it was before the
\* run or holds the whole rendered page of this run.
C10_AllOrNothing ==
  pc = "exit" =>
    \/ outputFile = prevOut
    \/ /\ "write" \in Range(steps)
       /\ outputFile = [exists |-> TRUE, content |-> html_content]

(***************************************************************************)
(* The script of the page, as the viewer evaluates it: the performance     *)
(* chart and the category chart.                                           *)
(***************************************************************************)
DigitChars == {Digit(d) : d \in 0..9}

DigitValue(c) == CHOOSE d \in 0..9 : Digit(d) = c

RECURSIVE StrToNat(_)
StrToNat(s) == IF s = <<>> THEN 0 ELSE 10 * StrToNat(SubSeq(s, 1, Len(s) - 1)) + DigitValue(s[Len(s)])

\* Numerals without leading zeros compared as numbers: by length, then digit by digit.
RECURSIVE NumeralLeq(_, _)
NumeralLeq(x, y) ==
  IF Len(x) # Len(y) THEN Len(x) < Len(y)
  ELSE IF x = <<>> THEN TRUE
  ELSE IF Head(x) # Head(y) THEN DigitValue(Head(x)) < DigitValue(Head(y))
  ELSE NumeralLeq(Tail(x), Tail(y))

\* The largest array index of the script language, 2^32 - 2.
MaxArrayIndex == <<"4", "2", "9", "4", "9", "6", "7", "2", "9", "4">>

\* A property key that is a canonical array index.
IsArrayIndex(key) ==
  /\ key # <<>>
  /\ \A i \in 1..Len(key) : key[i] \in DigitChars
  /\ (Len(key) = 1 \/ key[1] # "0")
  /\ NumeralLeq(key, MaxArrayIndex)

\* Keys every object inherits from Object.prototype (two of them).
ObjectPrototypeKeys ==
  {<<"c", "o", "n", "s", "t", "r", "u", "c", "t", "o", "r">>,
   <<"t", "o", "S", "t", "r", "i", "n", "g">>}

RECURSIVE SortByIndex(_)
SortByIndex(keys) ==
  IF keys = {} THEN <<>>
  ELSE LET k == CHOOSE x \in keys : \A y \in keys : NumeralLeq(x, y)
       IN <<k>> \o SortByIndex(keys \ {k})

\* Object.keys(obj): the array-index keys in ascending numeric order, then the
\* other own keys in insertion order.
ObjectKeys(obj) ==
  SortByIndex({k \in Range(obj.keys) : IsArrayIndex(k)})
    \o SelectSeq(obj.keys, LAMBDA k : ~IsArrayIndex(k))

\* obj[key] is truthy: an own property (an object), or an inherited one.
Truthy(obj, key) == key \in Range(obj.keys) \/ key \in ObjectPrototypeKeys

\* (passed / total * 100).toFixed(1): NaN or Infinity when total is 0, else
\* the nearest numeral with one fractional digit, a tie going up.  (A tie needs
\* a total that is a multiple of 16, and then the quotient is exact in binary
\* floating point; away from a tie the rounding error of the division is far
\* smaller than the distance to the next tie for any total of the model.)
ToFixed1(passed, total) ==
  IF total = 0
  THEN IF passed = 0 THEN <<"N", "a", "N">> ELSE <<"I", "n", "f", "i", "n", "i", "t", "y">>
  ELSE LET tenths == (2000 * passed + total) \div (2 * total)
       IN IntToStr(tenths \div 10) \o <<".">> \o <<Digit(tenths % 10)>>

\* name.split(' ')[0]
RECURSIVE FirstToken(_)
FirstToken(s) ==
  IF s = <<>> \/ Head(s) = " " THEN <<>> ELSE <<Head(s)>> \o FirstToken(Tail(s))

\* One call of the testSuites.forEach callback.
ForEachSuite ==
  /\ vpc = "forEach"
  /\ suiteIdx <= Len(testSuites)
  /\ LET suite == testSuites[suiteIdx]
         cat == suite.category.v
         created == IF Truthy(categories, cat)
                    THEN categories
                    ELSE [keys |-> Append(categories.keys, cat),
                          val |-> (cat :> [total |-> 0, passed |-> 0]) @@ categories.val]
     IN categories' =
          IF cat \in Range(created.keys)
          THEN [created EXCEPT !.val[cat] = [total |-> @.total + suite.tests.v,
                                             passed |-> @.passed + suite.passed.v]]
          ELSE created
  /\ suiteIdx' = suiteIdx + 1
  /\ UNCHANGED <<testSuites, categoryData, charts, vpc, runVars>>

\* const categoryData = Object.keys(categories).map(...)
MapCategories ==
  /\ vpc = "forEach"
  /\ suiteIdx > Len(testSuites)
  /\ LET keys == ObjectKeys(categories)
     IN categoryData' =
          [i \in 1..Len(keys) |->
             [category |-> keys[i],
              rate |-> ToFixed1(categories.val[keys[i]].passed, categories.val[keys[i]].total)]]
  /\ vpc' = "charts"
  /\ UNCHANGED <<testSuites, suiteIdx, categories, charts, runVars>>

\* new Chart(performanceCtx, ...) and new Chart(categoryCtx, ...)
DrawCharts ==
  /\ vpc = "charts"
  /\ charts' =
       [barLabels |-> [i \in 1..Len(testSuites) |->
                         FirstToken(testSuites[i].name.v) \o <<".", ".", ".">>],
        barPassed |-> [i \in 1..Len(testSuites) |-> testSuites[i].passed.v],
        barFailed |-> [i \in 1..Len(testSuites) |-> testSuites[i].failed.v],
        radarLabels |-> [i \in 1..Len(categoryData) |-> categoryData[i].category],
        radarData |-> [i \in 1..Len(categoryData) |-> categoryData[i].rate]]
  /\ vpc' = "done"
  /\ UNCHANGED <<testSuites, suiteIdx, categories, categoryData, runVars>>

\* The suites the script is evaluated on: the page of a finished run that
\* opened the viewer; const testSuites is the literal json.dumps wrote.
CategoryValues == {<<"A">>, <<"B">>, <<"2">>, <<"1", "0">>}

ViewerSuites ==
  UNION {{Suite(<<"a", " ", "a">>, c, t, p, t - p) : c \in CategoryValues, p \in 0..t} : t \in 0..MaxTests}

InitViewer ==
  /\ \E n \in 0..MaxSuites : testSuites \in [1..n -> ViewerSuites]
  /\ suiteIdx = 1
  /\ categories = NoCategories
  /\ categoryData = <<>>
  /\ charts = NoCharts
  /\ vpc = "forEach"
  /\ inputFile = [kind |-> "json", doc |-> Doc(testSuites)]
  /\ data = inputFile.doc
  /\ html_content = Render(data).html
  /\ outputFile = [exists |-> TRUE, content |-> html_content]
  /\ handleOpen = FALSE
  /\ pc = "exit"
  /\ exitStatus = 0
  /\ error = "none"
  /\ steps = StepOrder
  /\ printed = <<"Creating dashboard...", "dashboard created!", "Opening dashboard",
                 "Dashboard opened in browser!", "Features">>
  /\ browser = <<DashboardUrl>>
  /\ viewerResult = "true"
  /\ runs = MaxRuns
  /\ prevOut = [exists |-> FALSE, content |-> <<>>]
  /\ firstOut = [set |-> TRUE, content |-> html_content]

NextViewer ==
  \/ ForEachSuite
  \/ MapCategories
  \/ DrawCharts

SpecViewer == InitViewer /\ [][NextViewer]_vars

\* The distinct categories of the suites in the order of their first appearance.
RECURSIVE FirstSeen(_, _)
FirstSeen(suites, seen) ==
  IF suites = <<>> THEN <<>>
  ELSE LET c == Head(suites).category.v
       IN IF c \in seen THEN FirstSeen(Tail(suites), seen)
          ELSE <<c>> \o FirstSeen(Tail(suites), seen \cup {c})

RECURSIVE SumOver(_, _, _)
SumOver(suites, cat, key) ==
  IF suites = <<>> THEN 0
  ELSE (IF Head(suites).category.v = cat THEN Head(suites)[key].v ELSE 0)
         + SumOver(Tail(suites), cat, key)

\* text is a decimal numeral with one fractional digit at most 0.05 from 100 * p / t.
IsRateOf(text, p, t) ==
  /\ Len(text) >= 3
  /\ text[Len(text) - 1] = "."
  /\ \A i \in (1..Len(text)) \ {Len(text) - 1} : text[i] \in DigitChars
  /\ LET tenths == 10 * StrToNat(SubSeq(text, 1, Len(text) - 2)) + DigitValue(text[Len(text)])
         diff == tenths * t - 1000 * p
     IN 2 * (IF diff < 0 THEN -diff ELSE diff) <= t

\* C7: the radar chart has one axis per distinct category, in the order of
\* first appearance in testSuiteResults, and the value of each axis is
\* 100 * (sum of passed) / (sum of tests) of its category with one fractional digit.
C7_CategoryAggregation ==
  vpc = "done" =>
    /\ charts.radarLabels = FirstSeen(testSuites, {})
    /\ Len(charts.radarData) = Len(charts.radarLabels)
    /\ \A i \in 1..Len(charts.radarLabels) :
         LET cat == charts.radarLabels[i]
         IN SumOver(testSuites, cat, "tests") > 0 =>
              IsRateOf(charts.radarData[i], SumOver(testSuites, cat, "passed"),
                       SumOver(testSuites, cat, "tests"))

(***************************************************************************)
(* The render step on its own, over reports that differ in one scalar      *)
(* field or in their suites.                                               *)
(***************************************************************************)
RECURSIVE SetPath(_, _, _)
SetPath(d, path, v) ==
  IF Len(path) = 1 THEN [d EXCEPT ![path[1]] = v]
  ELSE [d EXCEPT ![path[1]] = SetPath(@, Tail(path), v)]

ScalarPaths == {Template[i].path : i \in {j \in 1..Len(Template) : Template[j].kind = "field"}}

ScalarValues == {IntV(0), IntV(100 * MaxTests), StrV(<<"a", " ", "a">>)}

StrValues == {<<"a", " ", "a">>, <<"\"">>, <<"a", "\\">>, <<"U+00E9">>}

RenderSuites ==
  {Suite(n, c, MaxTests, p, MaxTests - p) : n \in StrValues, c \in StrValues, p \in {0, MaxTests}}

\* The state of a run that has loaded its report: a report with one scalar
\* field changed, with any suites, or with one key lacking.
InitRender ==
  /\ \/ \E p \in ScalarPaths, v \in ScalarValues : data = SetPath(Doc(SampleSuites(1)), p, v)
     \/ \E n \in 0..MaxSuites : \E suites \in [1..n -> RenderSuites] : data = Doc(suites)
     \/ data \in DocsLackingKey
  /\ inputFile = [kind |-> "json", doc |-> data]
  /\ outputFile \in OutputFiles
  /\ pc = "render"
  /\ html_content = <<>>
  /\ handleOpen = FALSE
  /\ printed = <<"Creating dashboard...">>
  /\ browser = <<>>
  /\ viewerResult = "none"
  /\ exitStatus = -1
  /\ error = "none"
  /\ steps = <<"load">>
  /\ runs = 1
  /\ prevOut = outputFile
  /\ firstOut = [set |-> FALSE, content |-> <<>>]
  /\ ViewerIdle

NextRender == RenderPage

SpecRender == InitRender /\ [][NextRender]_vars

\* The fields of the schema whose fidelity is claimed.
SchemaScalarPaths ==
  {<<"testExecutionSummary", k>> : k \in {"totalTests", "totalSuites", "totalPassed",
                                           "totalFailed", "successRate"}}
    \cup {<<"failureAnalysis", k>> : k \in {"authenticationFailures", "functionalFailures"}}
    \cup {<<"comparisonWithPrevious", k>> : k \in {"previousTestCount", "newTestCount"}}

\* The text of a value as the report gives it.
Verbatim(x) == IF x.t = "int" THEN IntToStr(x.v) ELSE x.v

Rendered == pc = "write" /\ steps = <<"load", "render">>

ScalarsVerbatim ==
  \A p \in SchemaScalarPaths : Contains(html_content, Verbatim(Lookup(data, p)))

\* C9 as claimed: every scalar field and every field of every suite appears
\* verbatim in the rendered page.
C9_AllFieldsVerbatim ==
  Rendered =>
    /\ ScalarsVerbatim
    /\ \A i \in 1..Len(data.testSuiteResults) :
         \A k \in SuiteKeys \cap DOMAIN data.testSuiteResults[i] :
           Contains(html_content, Verbatim(data.testSuiteResults[i][k]))

\* The characters a JSON string does not hold as they are: the double quote,
\* the backslash and what is not ASCII (the other characters of the model are
\* printable ASCII).
SpecialChars == {"\"", "\\", "U+00E9"}

IsPlain(s) == \A i \in 1..Len(s) : s[i] \notin SpecialChars

\* C9: every scalar field and every count of every suite appears verbatim in
\* the rendered page; a suite's name and category appear between double
\* quotes, verbatim when they hold only characters a JSON string leaves as
\* they are, and otherwise with those characters escaped.
C9_FieldFidelity ==
  Rendered =>
    /\ ScalarsVerbatim
    /\ \A i \in 1..Len(data.testSuiteResults) :
         \A k \in SuiteKeys \cap DOMAIN data.testSuiteResults[i] :
           LET x == data.testSuiteResults[i][k]
           IN /\ x.t = "int" => Contains(html_content, Verbatim(x))
              /\ (x.t = "str" /\ IsPlain(x.v)) =>
                   Contains(html_content, <<"\"">> \o x.v \o <<"\"">>)
              /\ (x.t = "str" /\ ~IsPlain(x.v)) =>
                   /\ Contains(html_content, <<"\"">> \o JsonEscape(x.v) \o <<"\"">>)
                   /\ JsonEscape(x.v) # x.v

C9_Witness ==
  /\ Rendered
  /\ Len(data.testSuiteResults) = MaxSuites
  /\ \E i \in 1..Len(data.testSuiteResults) :
       /\ IsPlain(data.testSuiteResults[i].name.v)
       /\ ~IsPlain(data.testSuiteResults[i].category.v)

====
